---- MODULE Spec2Model ----
(***************************************************************************)
(* Build / publish orchestration of publish-extensions:                   *)
(*   scripts/build-extension.js   (ensureBuildPrerequisites, buildVersion, *)
(*                                 module.exports)                         *)
(*   scripts/publish-extension.js (module.exports = Publish Gate, and the  *)
(*                                 top-level driver appended to the file)  *)
(* One run of the driver callback for one extension is modelled: the      *)
(* build module expands the target matrix, runs buildVersion once per     *)
(* target, and hands the collected artifact paths to the Publish Gate.    *)
(* External collaborators (process runner, source resolver, archive       *)
(* reader, registry client) are nondeterministic: every call either       *)
(* succeeds or rejects with some error.                                   *)
(***************************************************************************)
EXTENDS Naturals, Sequences, FiniteSets, TLC

VARIABLES
    pc,            \* position of the single thread of control
    env,           \* process.env: FORCE, SKIP_PUBLISH, OVSX_PAT
    procEnv,       \* process.env identity/version variables written by buildVersion
    exitCode,      \* process.exitCode (0 = never set)
    extension,     \* the extension descriptor passed to the callback
    publishContext,\* the mutable publish context passed to the callback
    idx,           \* build module: number of loop entries consumed
    allOptions,    \* build module: options records returned by buildVersion
    scope,         \* buildVersion: the locals of its try block (options,
                   \* extensionDependenciesNotBuiltin, loop index,
                   \* dependenciesNotOnOpenVsx); gone once the block is left
    error,         \* the error being thrown: caught by buildVersion, or rejecting
                   \* the callback
    result,        \* value buildVersion returns to the loop
    dirExists,     \* fs: artifactDirectory exists
    artifacts,     \* fs: files in artifactDirectory, with the XML manifest each holds
    pythonGlobal,  \* pyenv global version: "default" or "extension"
    extensionFiles,\* Publish Gate: the list it was called with
    gIdx,          \* Publish Gate: artifacts already consumed
    registry,      \* registry side: createNamespace / publish calls received
    attempts,      \* history: one record per buildVersion call
    cur,           \* history: facts about the running buildVersion call
    xmlManifest,   \* Publish Gate: the XML manifest of the artifact in hand
    gateLog        \* history: one record per artifact the Publish Gate took up

vars == <<pc, env, procEnv, exitCode, extension, publishContext, idx, allOptions,
          scope, error, result, dirExists, artifacts, pythonGlobal, extensionFiles,
          gIdx, registry, attempts, cur, xmlManifest, gateLog>>

\* Frames: what the Publish Gate owns, and what only the driver sets
gateVars == <<extensionFiles, gIdx, registry, xmlManifest, gateLog>>
inputVars == <<env, extension>>

----------------------------------------------------------------------------
(* Bounds *)
MaxTargets == 2    \* declared targets of a descriptor
MaxFiles == 2      \* entries of publishContext.files
MaxDeps == 2       \* entries of manifest.extensionDependencies

Undef == "undefined"

Min(a, b) == IF a < b THEN a ELSE b

\* Sequences over S of length 0..n without repeated elements (the keys of a
\* JavaScript object, in Object.entries order)
InjSeqs(S, n) ==
    { s \in UNION { [1..k -> S] : k \in 0..n } :
        \A i, j \in 1..Len(s) : i # j => s[i] # s[j] }

RECURSIVE SelectSeq2(_, _)
SelectSeq2(s, keep) ==
    IF s = <<>> THEN <<>>
    ELSE IF s[1] \in keep THEN <<s[1]>> \o SelectSeq2(Tail(s), keep)
         ELSE SelectSeq2(Tail(s), keep)

Range(s) == { s[i] : i \in 1..Len(s) }

----------------------------------------------------------------------------
(* Strings.  A message is the sequence of its words; indexOf is a search   *)
(* for a contiguous run of words.                                          *)

Contains(msg, needle) ==
    \E i \in 1..(Len(msg) + 1) :
        /\ i + Len(needle) - 1 <= Len(msg)
        /\ SubSeq(msg, i, i + Len(needle) - 1) = needle

AlreadyPublishedNeedle == <<"is", "already", "published.">>

\* build-extension.js:282  error && String(error).indexOf("is already published.") !== -1
IsBenign(err) == err # <<>> /\ Contains(err, AlreadyPublishedNeedle)

\* String.prototype.toLowerCase on the names the model uses
ToLowerCase(s) ==
    CASE s = "Pub" -> "pub"
      [] s = "PUB" -> "pub"
      [] s = "Ext" -> "ext"
      [] OTHER -> s

----------------------------------------------------------------------------
(* semver: versions are strings, compared after parsing                     *)

Versions == {"1.9.0", "1.10.0"}

\* semver.parse on the version strings the model uses
SemverParse(v) ==
    CASE v = "1.9.0"  -> <<1, 9, 0>>
      [] v = "1.10.0" -> <<1, 10, 0>>

\* semver.compare(a, b) > 0
SemverGt(a, b) ==
    LET x == SemverParse(a)
        y == SemverParse(b)
    IN  \/ x[1] > y[1]
        \/ x[1] = y[1] /\ x[2] > y[2]
        \/ x[1] = y[1] /\ x[2] = y[2] /\ x[3] > y[3]

\* semver.compare(a, b) === 0
SemverEq(a, b) == SemverParse(a) = SemverParse(b)

----------------------------------------------------------------------------
(* Identifiers, targets, dependencies                                      *)

ExtensionId == "pub.ext"

\* extensionId.split(".")
SplitId(id) ==
    CASE id = "pub.ext"    -> <<"pub", "ext">>
      [] id = "vscode.git" -> <<"vscode", "git">>
      [] id = "closed.one" -> <<"closed", "one">>
      [] id = "closed.two" -> <<"closed", "two">>
      [] id = "known.dep"  -> <<"known", "dep">>
      [] id = "free.dep"   -> <<"free", "dep">>

AllTargets == <<"linux-x64", "darwin-arm64", "win32-x64">>
TargetNames == { AllTargets[i] : i \in 1..Min(MaxTargets, Len(AllTargets)) }

\* A declared target is a key of extension.target with its value: `true`, or an
\* object whose env holds the overrides (named here after the target).
TargetData(t) == IF t = "linux-x64" THEN "object" ELSE "true"
TargetEntries == { [name |-> t, data |-> TargetData(t)] : t \in TargetNames }

\* build-extension.js:28-29
vscodeBuiltinExtensionsNamespace == "vscode"
isBuiltIn(id) == SplitId(id)[1] = vscodeBuiltinExtensionsNamespace

DependencyIds == {"vscode.git", "closed.one", "closed.two", "known.dep", "free.dep"}
\* lib/reportStat cannotPublish, as imported at build-extension.js:21
cannotPublish == {"closed.one", "closed.two"}
\* Object.keys of ./extensions.json, read at build-extension.js:251
Catalogue == {ExtensionId, "known.dep"}

----------------------------------------------------------------------------
(* Errors.  String(error) as a sequence of words.                          *)

NoError == <<>>
\* What a rejected external call (exec, resolveExtension, createVSIX, readVSIXPackage,
\* fs, ovsx.publish) may carry: any failure, or the registry's duplicate report.
ExternalErrors ==
    { <<"Error:", "command", "failed">>,
      <<"Error:", "Extension", "pub.ext", "is", "already", "published.">> }
\* What readZip rejects with when the archive cannot be opened
ReadZipMsg == <<"Error:", "cannot", "open", "archive">>
TypeErrorMsg == <<"TypeError:", "Cannot", "read", "properties", "of", "undefined">>
NoVsixMsg(id, target) ==
    <<"Error:", "After", "running", "the", "custom", "commands,", "no", ".vsix",
      "file", "was", "found", "for", id, "@", target>>
VersionNotResolvedMsg(id) == <<"Error:", id, ":", "version", "is", "not", "resolved">>
OutOfDateMsg(ovsxVersion, version) ==
    <<"Error:", "extensions.json", "is", "out-of-date:", "Open", "VSX", "version",
      ovsxVersion, "is", "already", "greater", "than", "specified", "version", version>>
LicenseMissingMsg(id) == <<"Error:", id, ":", "license", "is", "missing">>
UnpublishableMsg(id, list) ==
    <<"Error:", id, "is", "dependent", "on">> \o list \o
    <<"which", IF Len(list) = 1 THEN "has" ELSE "have", "to", "be", "published", "to",
      "Open", "VSX", "first", "by",
      IF Len(list) = 1 THEN "its author because of its license"
                       ELSE "their authors because of their licenses">>
NotOnOpenVsxMsg(id, list) ==
    <<"Error:", id, "is", "dependent", "on">> \o list \o
    <<"which", IF Len(list) = 1 THEN "has" ELSE "have", "to", "be", "published", "to",
      "Open", "VSX", "first">>
PatMissingMsg ==
    <<"Error:", "The", "OVSX_PAT", "environment", "variable", "was", "not", "provided">>

----------------------------------------------------------------------------
(* Paths are sequences of their parts                                      *)

artifactDirectory == "/tmp/artifacts/"
NoPath == <<>>
ExplicitFile == <<"/tmp/download/", "prebuilt.vsix">>
DownloadedFile(t) == <<"/tmp/download/", t, ".vsix">>
RepoFile(name) == <<"/tmp/repository/", name>>

\* OutputPath with the target suffix added unconditionally
OutputPathAlwaysSuffixed(id, target) ==
    <<artifactDirectory, id, "@", target, ".vsix">>

\* build-extension.js:272-275
OutputPath(id, target) ==
    IF target # Undef THEN <<artifactDirectory, id, "@", target, ".vsix">>
    ELSE <<artifactDirectory, id, ".vsix">>

NoOptions == [defined |-> FALSE, extensionFile |-> NoPath, targets |-> <<>>]
NoScope == [options |-> NoOptions, deps |-> <<>>, depIdx |-> 0,
            dependenciesNotOnOpenVsx |-> <<>>]
NoXml == [shape |-> "unread", Publisher |-> Undef, Id |-> Undef]
NoCur == [reached |-> "start", versions |-> "unread", license |-> "unread",
          unpublishable |-> <<>>, toCheck |-> 0, lookups |-> 0, absent |-> <<>>,
          rejected |-> 0,
          installs |-> 0, install |-> "none", pin |-> "unreached", copied |-> FALSE,
          exitSet |-> FALSE]

----------------------------------------------------------------------------
(* Inputs of the callback                                                  *)

Extensions ==
    [ id : {ExtensionId},
      hasTarget : BOOLEAN,
      target : InjSeqs(TargetEntries, MaxTargets),
      pythonVersion : {Undef, "3.8"},
      custom : BOOLEAN,
      extensionFile : BOOLEAN ]

PublishContexts ==
    [ hasFiles : BOOLEAN,
      files : InjSeqs(TargetNames, MaxFiles),
      file : {NoPath, ExplicitFile},
      target : {Undef},
      repo : BOOLEAN,
      ref : BOOLEAN,
      version : {Undef},
      ovsxVersion : Versions \cup {Undef},
      environmentVariables : {Undef} ]

\* A field that no statement of the run reads is left absent, so that two inputs
\* on which the code runs identically are enumerated once.
Relevant(e, c) ==
    LET prebuilt == c.hasFiles \/ c.file # NoPath
        fromSource == ~prebuilt /\ c.repo /\ c.ref
    IN  /\ ~e.hasTarget => e.target = <<>>
        /\ ~c.hasFiles => c.files = <<>>
        /\ c.hasFiles => c.file = NoPath
        /\ prebuilt => ~c.ref
        /\ ~prebuilt => c.repo = c.ref
        /\ ~fromSource => ~e.custom /\ ~e.extensionFile

Inputs == { in \in Extensions \X PublishContexts : Relevant(in[1], in[2]) }

----------------------------------------------------------------------------
(* Initial state: the process before the driver runs                       *)

Init ==
    /\ pc = "main"
    /\ env \in [ FORCE : {Undef, "true", "false"},
                 SKIP_PUBLISH : {Undef, "true", ""},
                 OVSX_PAT : {Undef, "token"} ]
    /\ procEnv = [ EXTENSION_ID |-> Undef, EXTENSION_PUBLISHER |-> Undef,
                   EXTENSION_NAME |-> Undef ]
    /\ exitCode = 0
    /\ extension = CHOOSE e \in Extensions : ~e.hasTarget /\ e.target = <<>>
                       /\ e.pythonVersion = Undef /\ ~e.custom
                       /\ ~e.extensionFile
    /\ publishContext = CHOOSE c \in PublishContexts : ~c.hasFiles /\ c.files = <<>>
                       /\ c.file = NoPath /\ ~c.repo /\ ~c.ref
                       /\ c.ovsxVersion = Undef
    /\ idx = 0
    /\ allOptions = <<>>
    /\ scope = NoScope
    /\ error = NoError
    /\ result = NoOptions
    /\ dirExists = FALSE
    /\ artifacts = {}
    /\ pythonGlobal = "default"
    /\ extensionFiles = <<>>
    /\ gIdx = 0
    /\ registry = [ createNamespace |-> 0, publish |-> 0, namespace |-> "unknown" ]
    /\ attempts = <<>>
    /\ cur = NoCur
    /\ xmlManifest = NoXml
    /\ gateLog = <<>>

----------------------------------------------------------------------------
(* Top-level driver, publish-extension.js:138-146                          *)

\* process.env.X ??= "true"
NullishAssign(v, default) == IF v = Undef THEN default ELSE v

\* publish-extension.js:139-140
Driver ==
    /\ pc = "main"
    /\ env' = [env EXCEPT !.SKIP_PUBLISH = NullishAssign(@, "true"),
                          !.FORCE = NullishAssign(@, "true")]
    /\ pc' = "callback"
    /\ UNCHANGED <<procEnv, exitCode, extension, publishContext, idx, allOptions,
                   scope, error, result, dirExists, artifacts, pythonGlobal,
                   attempts, cur, gateVars>>

\* publish-extension.js:142-143 and build-extension.js:305-309: the catalogue
\* iterator calls the callback with an extension and its publish context
Callback ==
    /\ pc = "callback"
    /\ \E in \in Inputs :
        /\ extension' = in[1]
        /\ publishContext' = in[2]
    /\ allOptions' = <<>>
    /\ idx' = 0
    /\ pc' = "loop"
    /\ UNCHANGED <<env, procEnv, exitCode, scope, error, result, dirExists,
                   artifacts, pythonGlobal, attempts, cur, gateVars>>

----------------------------------------------------------------------------
(* Build module, build-extension.js:305-352                                *)

\* Which of the three branches at build-extension.js:310/324/336 is taken
Mode == IF publishContext.hasFiles THEN "files"
        ELSE IF extension.hasTarget THEN "targets" ELSE "universal"

\* Entries with the universal branch taken twice
EntriesUniversalTwice ==
    CASE Mode = "files" -> Len(publishContext.files)
      [] Mode = "targets" -> Len(extension.target)
      [] OTHER -> 2

\* Number of loop entries of the branch taken
Entries ==
    CASE Mode = "files" -> Len(publishContext.files)
      [] Mode = "targets" -> Len(extension.target)
      [] OTHER -> 1

\* build-extension.js:313
TargetAllowed(e, t) ==
    ~e.hasTarget \/ t \in { e.target[i].name : i \in 1..Len(e.target) }

\* Entry into buildVersion, build-extension.js:60-63
EnterBuildVersion(ctx) ==
    /\ publishContext' = ctx
    /\ attempts' = Append(attempts, [target |-> ctx.target, outcome |-> "running"])
    /\ cur' = NoCur
    /\ scope' = NoScope
    /\ error' = NoError
    /\ result' = NoOptions
    /\ pc' = "prerequisites"

\* build-extension.js:312-322
FilesLoop ==
    /\ pc = "loop" /\ Mode = "files" /\ idx < Entries
    /\ LET target == publishContext.files[idx + 1]
       IN  IF TargetAllowed(extension, target)
           THEN /\ EnterBuildVersion([publishContext EXCEPT
                                        !.file = DownloadedFile(target),
                                        !.target = target])
                /\ UNCHANGED idx
           ELSE /\ idx' = idx + 1
                /\ UNCHANGED <<publishContext, attempts, cur, scope, error, result, pc>>
    /\ UNCHANGED <<inputVars, procEnv, exitCode, allOptions, dirExists, artifacts,
                   pythonGlobal, gateVars>>

\* build-extension.js:326-331
TargetsLoop ==
    /\ pc = "loop" /\ Mode = "targets" /\ idx < Entries
    /\ LET entry == extension.target[idx + 1]
       IN  EnterBuildVersion([publishContext EXCEPT
               !.target = entry.name,
               !.environmentVariables =
                   IF entry.data # "true" THEN entry.name ELSE @])
    /\ UNCHANGED <<inputVars, procEnv, exitCode, idx, allOptions, dirExists,
                   artifacts, pythonGlobal, gateVars>>

\* build-extension.js:338
UniversalBuild ==
    /\ pc = "loop" /\ Mode = "universal" /\ idx < Entries
    /\ EnterBuildVersion(publishContext)
    /\ UNCHANGED <<inputVars, procEnv, exitCode, idx, allOptions, dirExists,
                   artifacts, pythonGlobal, gateVars>>

----------------------------------------------------------------------------
(* buildVersion, build-extension.js:60-298                                 *)

\* What no step inside the try block of buildVersion changes
tryFrame == <<inputVars, idx, allOptions, result, gateVars>>

\* A throw inside the try block of buildVersion: control goes to the catch
\* clause, and the block's locals are gone
Throw(e) == error' = e /\ pc' = "catch" /\ scope' = NoScope

\* Control stays in the try block
Goto(label) == pc' = label /\ UNCHANGED error

SetOutcome(o) == attempts' = [attempts EXCEPT ![Len(attempts)].outcome = o]

\* RmSyncGlob with the "*" expanded to every file of the directory
RmSyncGlobExpanded(files) == {}

\* fs.rmSync(`${artifactDirectory}*`), build-extension.js:47-49: the argument is one
\* literal path ending in "*"; nothing else is removed, and its error is swallowed
RmSyncGlob(files) == { f \in files : f # <<artifactDirectory, "*">> }

\* ensureBuildPrerequisites, build-extension.js:37-53, called at :64
Prerequisites ==
    /\ pc = "prerequisites"
    /\ \/ /\ dirExists' = TRUE
          /\ artifacts' = IF dirExists THEN RmSyncGlob(artifacts) ELSE artifacts
          /\ Goto("acquire")
          /\ UNCHANGED scope
       \/ \* one of the two exec calls rejects
          /\ \E e \in ExternalErrors : Throw(e)
          /\ UNCHANGED <<dirExists, artifacts>>
    /\ UNCHANGED <<tryFrame, procEnv, exitCode, publishContext, pythonGlobal,
                   attempts, cur>>

\* process.env writes, build-extension.js:86-89
IdentityEnv(id) ==
    [ EXTENSION_ID |-> id, EXTENSION_PUBLISHER |-> SplitId(id)[1],
      EXTENSION_NAME |-> SplitId(id)[2] ]

\* build-extension.js:73-93: pre-built file, or source resolution and checkout
Acquire ==
    /\ pc = "acquire"
    /\ IF publishContext.file # NoPath
       THEN /\ scope' = [scope EXCEPT !.options =
                           [defined |-> TRUE, extensionFile |-> publishContext.file,
                            targets |-> <<publishContext.target>>]]
            /\ Goto("readPackage")
            /\ UNCHANGED procEnv
       ELSE IF publishContext.repo /\ publishContext.ref
       THEN \/ /\ procEnv' = IdentityEnv(extension.id)
               /\ Goto("pin")
               /\ UNCHANGED scope
            \/ \* rm -rf or resolveExtension rejects
               /\ \E e \in ExternalErrors : Throw(e)
               /\ UNCHANGED procEnv
            \/ \* git checkout rejects
               /\ procEnv' = IdentityEnv(extension.id)
               /\ \E e \in ExternalErrors : Throw(e)
       ELSE /\ Goto("readPackage")
            /\ UNCHANGED <<scope, procEnv>>
    /\ UNCHANGED <<tryFrame, exitCode, publishContext, dirExists, artifacts,
                   pythonGlobal, attempts, cur>>

\* Pin without the try/catch around the pinning commands
PinUncaught ==
    /\ pc = "pin"
    /\ \E outcome \in {"done", "failed"} :
        /\ pythonGlobal' = IF outcome = "done" /\ extension.pythonVersion # Undef
                           THEN "extension" ELSE pythonGlobal
        /\ cur' = [cur EXCEPT !.pin = outcome]
        /\ IF outcome = "failed"
           THEN Throw(<<"Error:", "command", "failed">>)
           ELSE /\ Goto(IF extension.custom THEN "custom" ELSE "install")
                /\ UNCHANGED scope
    /\ UNCHANGED <<tryFrame, procEnv, exitCode, publishContext, dirExists,
                   artifacts, attempts>>

\* build-extension.js:95-114: runtime version pinning inside try { } catch {}:
\* findUp, nvm install and pyenv install && pyenv global all succeed, or one of
\* them fails, which leaves the global Python version as it was
Pin ==
    /\ pc = "pin"
    /\ \E outcome \in {"done", "failed"} :
        /\ pythonGlobal' = IF outcome = "done" /\ extension.pythonVersion # Undef
                           THEN "extension" ELSE pythonGlobal
        /\ cur' = [cur EXCEPT !.pin = outcome]
    /\ Goto(IF extension.custom THEN "custom" ELSE "install")
    /\ UNCHANGED <<tryFrame, procEnv, exitCode, publishContext, scope, dirExists,
                   artifacts, attempts>>

\* build-extension.js:122-128 and :183-185
DeclaredOrDefaultFile(e) ==
    RepoFile(IF e.extensionFile THEN "declared.vsix" ELSE "extension.vsix")

\* build-extension.js:116-154: custom commands, then the declared file or the glob
Custom ==
    /\ pc = "custom"
    /\ \/ \E e \in ExternalErrors : Throw(e)
       \/ /\ publishContext.target = Undef
          /\ scope' = [scope EXCEPT !.options =
                         [defined |-> TRUE,
                          extensionFile |-> DeclaredOrDefaultFile(extension),
                          targets |-> <<>>]]
          /\ Goto("readPackage")
       \/ /\ publishContext.target # Undef
          /\ \/ /\ scope' = [scope EXCEPT !.options =
                               [defined |-> TRUE,
                                extensionFile |-> RepoFile(publishContext.target),
                                targets |-> <<publishContext.target>>]]
                /\ Goto("readPackage")
             \/ \* the glob matches nothing
                Throw(NoVsixMsg(extension.id, publishContext.target))
    /\ UNCHANGED <<tryFrame, procEnv, exitCode, publishContext, dirExists, artifacts,
                   pythonGlobal, attempts, cur>>

\* Install retrying after any failed install
InstallRetryAlways ==
    /\ pc = "install"
    /\ \/ /\ cur' = [cur EXCEPT !.installs = @ + 1, !.install = "ok"]
          /\ Goto("package") /\ UNCHANGED scope
       \/ \E e \in ExternalErrors :
            \/ /\ cur' = [cur EXCEPT !.installs = @ + 1, !.install = "unreadable"]
               /\ \E e2 \in ExternalErrors : Throw(e2)
            \/ /\ cur' = [cur EXCEPT !.installs = @ + 1, !.install = "migrated"]
               /\ Goto("installRetry") /\ UNCHANGED scope
            \/ /\ cur' = [cur EXCEPT !.installs = @ + 1, !.install = "rethrown"]
               /\ Goto("installRetry") /\ UNCHANGED scope
    /\ UNCHANGED <<tryFrame, procEnv, exitCode, publishContext, dirExists, artifacts,
                   pythonGlobal, attempts>>

\* build-extension.js:156-178: install, and on failure the legacy migration
Install ==
    /\ pc = "install"
    /\ \/ /\ cur' = [cur EXCEPT !.installs = @ + 1, !.install = "ok"]
          /\ Goto("package") /\ UNCHANGED scope
       \/ \E e \in ExternalErrors :
            \/ \* package.json cannot be read or parsed, or cannot be written
               /\ cur' = [cur EXCEPT !.installs = @ + 1, !.install = "unreadable"]
               /\ \E e2 \in ExternalErrors : Throw(e2)
            \/ \* postinstall is the legacy hook: migrate and retry
               /\ cur' = [cur EXCEPT !.installs = @ + 1, !.install = "migrated"]
               /\ Goto("installRetry") /\ UNCHANGED scope
            \/ \* anything else: throw e
               /\ cur' = [cur EXCEPT !.installs = @ + 1, !.install = "rethrown"]
               /\ Throw(e)
    /\ UNCHANGED <<tryFrame, procEnv, exitCode, publishContext, dirExists, artifacts,
                   pythonGlobal, attempts>>

\* build-extension.js:174
InstallRetry ==
    /\ pc = "installRetry"
    /\ \/ /\ cur' = [cur EXCEPT !.installs = @ + 1, !.install = "retryOk"]
          /\ Goto("package") /\ UNCHANGED scope
       \/ /\ cur' = [cur EXCEPT !.installs = @ + 1, !.install = "retryFailed"]
          /\ \E e \in ExternalErrors : Throw(e)
    /\ UNCHANGED <<tryFrame, procEnv, exitCode, publishContext, dirExists, artifacts,
                   pythonGlobal, attempts>>

\* build-extension.js:179-205: prepublish, then the declared file or createVSIX
Package ==
    /\ pc = "package"
    /\ \/ /\ scope' = [scope EXCEPT !.options =
                         [defined |-> TRUE,
                          extensionFile |-> DeclaredOrDefaultFile(extension),
                          targets |-> <<>>]]
          /\ Goto("readPackage")
       \/ \* the prepublish command, when there is one, or createVSIX rejects
          \E e \in ExternalErrors : Throw(e)
    /\ UNCHANGED <<tryFrame, procEnv, exitCode, publishContext, dirExists, artifacts,
                   pythonGlobal, attempts, cur>>

\* JavaScript truthiness of an optional string
Truthy(v) == v # Undef /\ v # ""

\* a || b on optional strings
JsOr(a, b) == IF a # Undef /\ a # "" THEN a ELSE b

\* build-extension.js:211-212
ResolveVersion(xmlVersion, manifestVersion) == JsOr(xmlVersion, manifestVersion)

\* VersionMissing testing for the empty string only
VersionMissingEmptyOnly(version) == version = ""

\* build-extension.js:213: !publishContext.version
VersionMissing(version) == ~Truthy(version)

\* build-extension.js:210-215: read the package, resolve the version
ReadPackage ==
    /\ pc = "readPackage"
    /\ \/ \* options is undefined: reading options.extensionFile throws
          /\ ~scope.options.defined
          /\ Throw(TypeErrorMsg)
          /\ UNCHANGED <<publishContext, cur>>
       \/ \* readVSIXPackage rejects
          /\ scope.options.defined
          /\ \E e \in ExternalErrors : Throw(e)
          /\ UNCHANGED <<publishContext, cur>>
       \/ \* the XML manifest has no Metadata or no Identity element
          /\ scope.options.defined
          /\ Throw(TypeErrorMsg)
          /\ UNCHANGED <<publishContext, cur>>
       \/ /\ scope.options.defined
          /\ \E xmlVersion \in Versions \cup {Undef},
                manifestVersion \in Versions \cup {Undef} :
              LET version == ResolveVersion(xmlVersion, manifestVersion)
                  yielded == IF xmlVersion = Undef /\ manifestVersion = Undef
                             THEN "none" ELSE "some"
              IN  /\ publishContext' = [publishContext EXCEPT !.version = version]
                  /\ IF VersionMissing(version)
                     THEN /\ Throw(VersionNotResolvedMsg(extension.id))
                          /\ cur' = [cur EXCEPT !.versions = yielded]
                     ELSE /\ cur' = [cur EXCEPT !.reached = "versionGate",
                                                !.versions = yielded]
                          /\ Goto("versionGate")
                          /\ UNCHANGED scope
    /\ UNCHANGED <<tryFrame, procEnv, exitCode, dirExists, artifacts, pythonGlobal,
                   attempts>>

\* IsOutOfDate comparing the major version only
IsOutOfDateMajorOnly(ovsxVersion, version) ==
    SemverParse(ovsxVersion)[1] > SemverParse(version)[1]

\* build-extension.js:218
IsOutOfDate(ovsxVersion, version) == SemverGt(ovsxVersion, version)

\* IsAlreadyPublished without the FORCE test
IsAlreadyPublishedIgnoringForce(ovsxVersion, version, force) ==
    SemverEq(ovsxVersion, version)

\* build-extension.js:223
IsAlreadyPublished(ovsxVersion, version, force) ==
    SemverEq(ovsxVersion, version) /\ force # "true"

\* build-extension.js:217-227: version-freshness gate
VersionGate ==
    /\ pc = "versionGate"
    /\ LET ovsxVersion == publishContext.ovsxVersion
           version == publishContext.version
       IN  IF ovsxVersion # Undef /\ IsOutOfDate(ovsxVersion, version)
           THEN /\ Throw(OutOfDateMsg(ovsxVersion, version))
                /\ UNCHANGED <<attempts, cur>>
           ELSE IF ovsxVersion # Undef
                   /\ IsAlreadyPublished(ovsxVersion, version, env.FORCE)
           THEN \* [SKIPPED]: return undefined; the finally clause runs next
                /\ SetOutcome("skipped")
                /\ scope' = NoScope
                /\ Goto("finally")
                /\ UNCHANGED cur
           ELSE /\ cur' = [cur EXCEPT !.reached = "licenseGate"]
                /\ Goto("licenseGate")
                /\ UNCHANGED <<scope, attempts>>
    /\ UNCHANGED <<tryFrame, procEnv, exitCode, publishContext, dirExists, artifacts,
                   pythonGlobal>>

\* LicenseDeclared with the second negation dropped
LicenseDeclaredNegationSlip(xmlLicense, license) == xmlLicense \/ ~license

\* build-extension.js:231-232: a license declared in either manifest
LicenseDeclared(xmlLicense, license) == xmlLicense \/ license

\* build-extension.js:230-236: license gate.  The License element of the XML
\* manifest and manifest.license are first read here; packagePath is
\* publishContext.repo.
LicenseGate ==
    /\ pc = "licenseGate"
    /\ \E xmlLicense \in BOOLEAN, license \in BOOLEAN :
        IF LicenseDeclared(xmlLicense, license)
        THEN /\ cur' = [cur EXCEPT !.reached = "dependencyGate",
                          !.license = IF xmlLicense \/ license
                                      THEN "present" ELSE "missing"]
             /\ Goto("dependencyGate")
             /\ UNCHANGED scope
        ELSE IF ~publishContext.repo
        THEN /\ cur' = [cur EXCEPT !.license = "missing"]
             /\ Throw(LicenseMissingMsg(extension.id))
        ELSE \/ \* ovsx.isLicenseOk resolves true
                /\ cur' = [cur EXCEPT !.reached = "dependencyGate",
                                      !.license = "present"]
                /\ Goto("dependencyGate")
                /\ UNCHANGED scope
             \/ \* ovsx.isLicenseOk resolves false
                /\ cur' = [cur EXCEPT !.license = "missing"]
                /\ Throw(LicenseMissingMsg(extension.id))
             \/ \* ovsx.isLicenseOk rejects
                /\ cur' = [cur EXCEPT !.license = "checkRejected"]
                /\ \E e \in ExternalErrors : Throw(e)
    /\ UNCHANGED <<tryFrame, procEnv, exitCode, publishContext, dirExists, artifacts,
                   pythonGlobal, attempts>>

\* build-extension.js:240
NotBuiltin(list) == SelectSeq2(list, { d \in DependencyIds : ~isBuiltIn(d) })

\* Unpublishable stopping at the first hit
UnpublishableFirstOnly(list) ==
    LET all == SelectSeq2(NotBuiltin(list), cannotPublish)
    IN  IF all = <<>> THEN all ELSE <<all[1]>>

\* build-extension.js:241-243
Unpublishable(list) == SelectSeq2(NotBuiltin(list), cannotPublish)

\* build-extension.js:238-251: the manifest's extensionDependencies, first read
\* here; the cannot-be-published check; then ./extensions.json is read
DependencyGate ==
    /\ pc = "dependencyGate"
    /\ \/ \* manifest.extensionDependencies is undefined
          /\ cur' = [cur EXCEPT !.reached = "finalize"]
          /\ Goto("finalize")
          /\ UNCHANGED scope
       \/ \E list \in InjSeqs(DependencyIds, MaxDeps) :
            LET declared == SelectSeq2(list, {"closed.one", "closed.two"})
                required == SelectSeq2(list,
                                { d \in DependencyIds :
                                    /\ ~isBuiltIn(d)
                                    /\ ~(Truthy(env.SKIP_PUBLISH) /\ d \in Catalogue) })
            IN  IF Len(Unpublishable(list)) > 0
                THEN /\ cur' = [cur EXCEPT !.unpublishable = declared]
                     /\ Throw(UnpublishableMsg(extension.id, Unpublishable(list)))
                ELSE \/ /\ cur' = [cur EXCEPT !.unpublishable = declared,
                                              !.toCheck = Len(required),
                                              !.reached = "lookups"]
                        /\ scope' = [scope EXCEPT !.deps = NotBuiltin(list),
                                                  !.depIdx = 0,
                                                  !.dependenciesNotOnOpenVsx = <<>>]
                        /\ Goto("dependencyLookup")
                     \/ \* ./extensions.json cannot be read or parsed
                        /\ cur' = [cur EXCEPT !.unpublishable = declared]
                        /\ \E e \in ExternalErrors : Throw(e)
    /\ UNCHANGED <<tryFrame, procEnv, exitCode, publishContext, dirExists, artifacts,
                   pythonGlobal, attempts>>

\* build-extension.js:253
CoveredByCatalogue(skipPublish, dependency) ==
    Truthy(skipPublish) /\ dependency \in Catalogue

\* DependencyLookup without the test of the settled status
DependencyLookupIgnoringStatus ==
    /\ pc = "dependencyLookup" /\ scope.depIdx < Len(scope.deps)
    /\ LET dependency == scope.deps[scope.depIdx + 1]
       IN  IF CoveredByCatalogue(env.SKIP_PUBLISH, dependency)
           THEN /\ scope' = [scope EXCEPT !.depIdx = @ + 1]
                /\ UNCHANGED cur
           ELSE \E settled \in {"found", "absent", "rejected"} :
                /\ cur' = [cur EXCEPT !.lookups = @ + 1,
                                      !.absent = IF settled = "absent"
                                                 THEN Append(@, dependency) ELSE @,
                                      !.rejected = IF settled = "rejected"
                                                   THEN @ + 1 ELSE @]
                /\ scope' = [scope EXCEPT
                        !.depIdx = @ + 1,
                        !.dependenciesNotOnOpenVsx =
                            IF settled # "found" THEN Append(@, dependency) ELSE @]
    /\ UNCHANGED <<tryFrame, pc, error, procEnv, exitCode, publishContext, dirExists,
                   artifacts, pythonGlobal, attempts>>

\* build-extension.js:252-262: one iteration of the existence loop; the lookup
\* is fulfilled with an extension, fulfilled with none, or rejected
DependencyLookup ==
    /\ pc = "dependencyLookup" /\ scope.depIdx < Len(scope.deps)
    /\ LET dependency == scope.deps[scope.depIdx + 1]
       IN  IF CoveredByCatalogue(env.SKIP_PUBLISH, dependency)
           THEN /\ scope' = [scope EXCEPT !.depIdx = @ + 1]
                /\ UNCHANGED cur
           ELSE \E settled \in {"found", "absent", "rejected"} :
                /\ cur' = [cur EXCEPT !.lookups = @ + 1,
                                      !.absent = IF settled = "absent"
                                                 THEN Append(@, dependency) ELSE @,
                                      !.rejected = IF settled = "rejected"
                                                   THEN @ + 1 ELSE @]
                /\ scope' = [scope EXCEPT
                        !.depIdx = @ + 1,
                        !.dependenciesNotOnOpenVsx =
                            IF settled = "absent" THEN Append(@, dependency) ELSE @]
    /\ UNCHANGED <<tryFrame, pc, error, procEnv, exitCode, publishContext, dirExists,
                   artifacts, pythonGlobal, attempts>>

\* DependencyCheck made as soon as one dependency is found absent
DependencyCheckOnFirstAbsent ==
    /\ pc = "dependencyLookup"
    /\ scope.depIdx = Len(scope.deps) \/ Len(scope.dependenciesNotOnOpenVsx) > 0
    /\ IF Len(scope.dependenciesNotOnOpenVsx) > 0
       THEN /\ Throw(NotOnOpenVsxMsg(extension.id, scope.dependenciesNotOnOpenVsx))
            /\ UNCHANGED cur
       ELSE /\ cur' = [cur EXCEPT !.reached = "finalize"]
            /\ Goto("finalize")
            /\ UNCHANGED scope
    /\ UNCHANGED <<tryFrame, procEnv, exitCode, publishContext, dirExists, artifacts,
                   pythonGlobal, attempts>>

\* build-extension.js:263-267
DependencyCheck ==
    /\ pc = "dependencyLookup" /\ scope.depIdx = Len(scope.deps)
    /\ IF Len(scope.dependenciesNotOnOpenVsx) > 0
       THEN /\ Throw(NotOnOpenVsxMsg(extension.id, scope.dependenciesNotOnOpenVsx))
            /\ UNCHANGED cur
       ELSE /\ cur' = [cur EXCEPT !.reached = "finalize"]
            /\ Goto("finalize")
            /\ UNCHANGED scope
    /\ UNCHANGED <<tryFrame, procEnv, exitCode, publishContext, dirExists, artifacts,
                   pythonGlobal, attempts>>

\* build-extension.js:270-280: copy into the artifact directory, return options;
\* the finally clause runs next
Finalize ==
    /\ pc = "finalize"
    /\ LET outputPath == OutputPath(extension.id, publishContext.target)
       IN  \/ /\ artifacts' = artifacts \cup {outputPath}
              /\ result' = [scope.options EXCEPT !.extensionFile = outputPath]
              /\ scope' = NoScope
              /\ cur' = [cur EXCEPT !.copied = TRUE]
              /\ SetOutcome("built")
              /\ Goto("finally")
           \/ \* fs.copyFileSync throws
              /\ \E e \in ExternalErrors : Throw(e)
              /\ UNCHANGED <<artifacts, result, cur, attempts>>
    /\ UNCHANGED <<inputVars, idx, allOptions, gateVars, procEnv, exitCode,
                   publishContext, dirExists, pythonGlobal>>

\* build-extension.js:281-291: the catch clause
Catch ==
    /\ pc = "catch"
    /\ IF IsBenign(error)
       THEN /\ SetOutcome("benign")
            /\ UNCHANGED <<exitCode, cur>>
       ELSE /\ exitCode' = 1
            /\ cur' = [cur EXCEPT !.exitSet = TRUE]
            /\ SetOutcome("failed")
    /\ pc' = "finally"
    /\ UNCHANGED <<tryFrame, procEnv, publishContext, scope, error, dirExists,
                   artifacts, pythonGlobal>>

\* Finally restoring the runtime only after a successful build
FinallyOnSuccessOnly ==
    /\ pc = "finally"
    /\ IF extension.pythonVersion # Undef /\ result.defined
       THEN \/ /\ pythonGlobal' = "default"
               /\ pc' = "return"
               /\ UNCHANGED <<error, result>>
            \/ \E e \in ExternalErrors :
               /\ error' = e
               /\ result' = NoOptions
               /\ pc' = "buildRejected"
               /\ UNCHANGED pythonGlobal
       ELSE /\ pc' = "return"
            /\ UNCHANGED <<pythonGlobal, error, result>>
    /\ UNCHANGED <<inputVars, idx, allOptions, gateVars, procEnv, exitCode,
                   publishContext, scope, dirExists, artifacts, attempts, cur>>

\* build-extension.js:292-297: the finally clause; an exec that rejects here
\* replaces the completion of buildVersion by a rejection, which nothing in the
\* build module or the callback catches
Finally ==
    /\ pc = "finally"
    /\ IF extension.pythonVersion # Undef
       THEN \/ /\ pythonGlobal' = "default"
               /\ pc' = "return"
               /\ UNCHANGED <<error, result>>
            \/ \E e \in ExternalErrors :
               /\ error' = e
               /\ result' = NoOptions
               /\ pc' = "buildRejected"
               /\ UNCHANGED pythonGlobal
       ELSE /\ pc' = "return"
            /\ UNCHANGED <<pythonGlobal, error, result>>
    /\ UNCHANGED <<inputVars, idx, allOptions, gateVars, procEnv, exitCode,
                   publishContext, scope, dirExists, artifacts, attempts, cur>>

\* Return taken as soon as buildVersion has been called, without awaiting it
ReturnNotAwaited ==
    /\ pc \in {"prerequisites", "acquire", "pin", "custom", "install", "installRetry",
               "package", "readPackage", "versionGate", "licenseGate",
               "dependencyGate", "dependencyLookup", "finalize", "catch", "finally",
               "return"}
    /\ allOptions' = IF result.defined THEN Append(allOptions, result) ELSE allOptions
    /\ idx' = idx + 1
    /\ pc' = "loop"
    /\ error' = NoError
    /\ result' = NoOptions
    /\ cur' = NoCur
    /\ UNCHANGED <<inputVars, gateVars, procEnv, exitCode, publishContext, scope,
                   dirExists, artifacts, pythonGlobal, attempts>>

\* build-extension.js:316-319, 331-334, 338-341: back in the loop of the build module
Return ==
    /\ pc = "return"
    /\ allOptions' = IF result.defined THEN Append(allOptions, result) ELSE allOptions
    /\ idx' = idx + 1
    /\ pc' = "loop"
    /\ error' = NoError
    /\ result' = NoOptions
    /\ cur' = NoCur
    /\ UNCHANGED <<inputVars, gateVars, procEnv, exitCode, publishContext, scope,
                   dirExists, artifacts, pythonGlobal, attempts>>

\* build-extension.js:344-351
CollectFiles(all) == [ i \in 1..Len(all) |-> all[i].extensionFile ]

\* build-extension.js:344-351 and publish-extension.js:143-144: the build module
\* returns extensionFiles and the callback calls the Publish Gate with it
LoopExit ==
    /\ pc = "loop" /\ idx = Entries
    /\ extensionFiles' = CollectFiles(allOptions)
    /\ gIdx' = 0
    /\ pc' = "publish"
    /\ UNCHANGED <<inputVars, procEnv, exitCode, publishContext, idx, allOptions,
                   scope, error, result, dirExists, artifacts, pythonGlobal, registry,
                   attempts, cur, xmlManifest, gateLog>>

----------------------------------------------------------------------------
(* Publish Gate, publish-extension.js:80-121                               *)

\* What no step of the Publish Gate changes
buildVars == <<inputVars, procEnv, exitCode, publishContext, idx, allOptions, scope,
               result, dirExists, artifacts, pythonGlobal, attempts, cur>>

\* CredentialCheck made only when there is an artifact to publish
CredentialCheckInsideLoop ==
    /\ pc = "publish"
    /\ IF ~Truthy(env.OVSX_PAT) /\ Len(extensionFiles) > 0
       THEN /\ error' = PatMissingMsg
            /\ pc' = "publishRejected"
       ELSE /\ pc' = "gateLoop"
            /\ UNCHANGED error
    /\ UNCHANGED <<buildVars, gateVars>>

\* publish-extension.js:83-87
CredentialCheck ==
    /\ pc = "publish"
    /\ IF ~Truthy(env.OVSX_PAT)
       THEN /\ error' = PatMissingMsg
            /\ pc' = "publishRejected"
       ELSE /\ pc' = "gateLoop"
            /\ UNCHANGED error
    /\ UNCHANGED <<buildVars, gateVars>>

\* What readXmlManifest may return for a finalized artifact: no manifest entry, an
\* Identity element without attributes, or one whose attributes may lack
\* Publisher or Id.  buildVersion reads only Version and License of this manifest.
XmlManifests ==
    { [shape |-> "absent", Publisher |-> Undef, Id |-> Undef],
      [shape |-> "noAttributes", Publisher |-> Undef, Id |-> Undef] } \cup
    [ shape : {"attributes"}, Publisher : {Undef, "Pub", "other"},
      Id : {Undef, "Ext", "other"} ]

\* xmlManifest?.PackageManifest?.Metadata[0]?.Identity[0]["$"]?.<attr>.toLowerCase()
\* != expected.toLowerCase(), publish-extension.js:93-94 and :101: "differs",
\* "same", or "throws" when $ is there and the attribute is not
CompareAttribute(xml, attr, expected) ==
    IF xml.shape # "attributes" THEN "differs"
    ELSE IF attr = Undef THEN "throws"
    ELSE IF ToLowerCase(attr) # ToLowerCase(expected) THEN "differs"
    ELSE "same"

\* publish-extension.js:92-106 for one manifest
Verify(xml, id) ==
    LET namespace == SplitId(id)[1]
        name == SplitId(id)[2]
        first == CompareAttribute(xml, xml.Publisher, namespace)
        second == CompareAttribute(xml, xml.Id, name)
    IN  CASE first = "throws" -> "typeError"
          [] first = "differs" -> "namespaceMismatch"
          [] second = "throws" -> "typeError"
          [] second = "differs" -> "nameMismatch"
          [] OTHER -> "verified"

NewGateRecord(file, identity, verdict) ==
    [ file |-> file, identity |-> identity, verdict |-> verdict,
      createNamespace |-> 0, namespace |-> "none", publish |-> 0,
      published |-> FALSE ]

\* publish-extension.js:90-106: take the next artifact, read its manifest, verify
VerifyIdentity ==
    /\ pc = "gateLoop" /\ gIdx < Len(extensionFiles)
    /\ LET extensionFile == extensionFiles[gIdx + 1]
       IN  \/ \* readXmlManifest rejects
              /\ error' = ReadZipMsg
              /\ pc' = "publishRejected"
              /\ gateLog' = Append(gateLog,
                                   NewGateRecord(extensionFile, "unread", "readFailed"))
              /\ UNCHANGED <<gIdx, xmlManifest>>
           \/ \E xml \in XmlManifests :
              LET verdict == Verify(xml, extension.id)
                  identity == IF xml.Publisher = "Pub" /\ xml.Id = "Ext"
                              THEN "match" ELSE "mismatch"
              IN  /\ xmlManifest' = IF verdict \in {"typeError", "verified"}
                                    THEN xml ELSE NoXml
                  /\ gateLog' = Append(gateLog,
                                       NewGateRecord(extensionFile, identity, verdict))
                  /\ CASE verdict = "typeError" ->
                            /\ error' = TypeErrorMsg
                            /\ pc' = "publishRejected"
                            /\ UNCHANGED gIdx
                       [] verdict = "verified" ->
                            /\ pc' = "createNamespace"
                            /\ UNCHANGED <<error, gIdx>>
                       [] OTHER ->
                            \* the mismatch is logged; continue
                            /\ gIdx' = gIdx + 1
                            /\ UNCHANGED <<error, pc>>
    /\ UNCHANGED <<buildVars, extensionFiles, registry>>

\* CreateNamespace without the try/catch around the call
CreateNamespaceUncaught ==
    /\ pc = "createNamespace"
    /\ \E outcome \in {"created", "rejected"} :
        /\ outcome = "created" => registry.namespace # "exists"
        /\ registry' = [registry EXCEPT
                            !.createNamespace = @ + 1,
                            !.namespace = IF outcome = "created" THEN "exists" ELSE @]
        /\ gateLog' = [gateLog EXCEPT ![Len(gateLog)].createNamespace = @ + 1,
                                      ![Len(gateLog)].namespace = outcome]
        /\ IF outcome = "rejected"
           THEN /\ error' = <<"Error:", "command", "failed">>
                /\ pc' = "publishRejected"
           ELSE /\ pc' = "publishArtifact"
                /\ UNCHANGED error
    /\ UNCHANGED <<buildVars, extensionFiles, gIdx, xmlManifest>>

\* publish-extension.js:109-114: ovsx.createNamespace creates the namespace, or
\* rejects (the namespace exists already, or any other failure); a rejection is
\* logged and swallowed
CreateNamespace ==
    /\ pc = "createNamespace"
    /\ \E outcome \in {"created", "rejected"} :
        /\ outcome = "created" => registry.namespace # "exists"
        /\ registry' = [registry EXCEPT
                            !.createNamespace = @ + 1,
                            !.namespace = IF outcome = "created" THEN "exists" ELSE @]
        /\ gateLog' = [gateLog EXCEPT ![Len(gateLog)].createNamespace = @ + 1,
                                      ![Len(gateLog)].namespace = outcome]
    /\ pc' = "publishArtifact"
    /\ UNCHANGED <<buildVars, error, extensionFiles, gIdx, xmlManifest>>

\* publish-extension.js:116-119
PublishArtifact ==
    /\ pc = "publishArtifact"
    /\ registry' = [registry EXCEPT !.publish = @ + 1]
    /\ \/ /\ gateLog' = [gateLog EXCEPT ![Len(gateLog)].publish = @ + 1,
                                        ![Len(gateLog)].published = TRUE]
          /\ gIdx' = gIdx + 1
          /\ xmlManifest' = NoXml
          /\ pc' = "gateLoop"
          /\ UNCHANGED error
       \/ \* ovsx.publish rejects: nothing catches it inside the Publish Gate
          /\ \E e \in ExternalErrors : error' = e
          /\ gateLog' = [gateLog EXCEPT ![Len(gateLog)].publish = @ + 1]
          /\ pc' = "publishRejected"
          /\ UNCHANGED <<gIdx, xmlManifest>>
    /\ UNCHANGED <<buildVars, extensionFiles>>

\* publish-extension.js:120-121: the list is exhausted, the callback resolves
GateDone ==
    /\ pc = "gateLoop" /\ gIdx = Len(extensionFiles)
    /\ pc' = "done"
    /\ UNCHANGED <<buildVars, error, gateVars>>

----------------------------------------------------------------------------
Next ==
    \/ Driver \/ Callback
    \/ FilesLoop \/ TargetsLoop \/ UniversalBuild \/ LoopExit
    \/ Prerequisites \/ Acquire \/ Pin \/ Custom \/ Install \/ InstallRetry \/ Package
    \/ ReadPackage \/ VersionGate \/ LicenseGate
    \/ DependencyGate \/ DependencyLookup \/ DependencyCheck
    \/ Finalize \/ Catch \/ Finally \/ Return
    \/ CredentialCheck \/ VerifyIdentity \/ CreateNamespace \/ PublishArtifact \/ GateDone

Spec == Init /\ [][Next]_vars

----------------------------------------------------------------------------
(* Properties                                                              *)

\* The build module has stopped: it returned to the callback or it rejected
BuildOver ==
    pc \in {"publish", "gateLoop", "createNamespace", "publishArtifact", "done",
            "publishRejected", "buildRejected"}

\* The catch clause of the running buildVersion call has run
Caught == pc \in {"finally", "return", "buildRejected"}

LastOutcome == attempts[Len(attempts)].outcome

AttemptedTargets == [ i \in 1..Len(attempts) |-> attempts[i].target ]
DeclaredTargets == [ i \in 1..Len(extension.target) |-> extension.target[i].name ]

\* C1: with N declared targets and no files map, once the build module has
\* stopped it has made exactly N build attempts, one per declared target in
\* declaration order, whatever failed in any of them.
C1_EveryDeclaredTargetAttempted ==
    (BuildOver /\ Mode = "targets") => AttemptedTargets = DeclaredTargets

\* C2 as stated: an extension that declares no target set gets exactly one build
\* attempt, with the universal (unspecified) target.
C2_NoTargetSetOneUniversalAttempt ==
    (BuildOver /\ ~extension.hasTarget) =>
        Len(attempts) = 1 /\ attempts[1].target = Undef

\* C2 amended: an extension that declares no target set, and whose publish
\* context carries no files map, gets exactly one build attempt, with the
\* universal target: never more than one while building, exactly one once the
\* build module has stopped.
C2_UniversalOneAttempt ==
    (~extension.hasTarget /\ ~publishContext.hasFiles) =>
        /\ Len(attempts) <= 1
        /\ \A i \in 1..Len(attempts) : attempts[i].target = Undef
        /\ BuildOver => Len(attempts) = 1

C2_Witness ==
    /\ pc = "done" /\ Mode = "universal"
    /\ Len(attempts) = 1 /\ attempts[1].outcome = "built"

\* The running attempt has resolved a version and left the version gate
PastVersionGate == cur.reached # "start" /\ pc # "versionGate"

\* C3: when the registry's version equals the resolved version, an attempt with
\* FORCE off stops at the version gate with no build result, nothing copied and
\* the exit status untouched, and nothing of it reaches the Publish Gate; with
\* FORCE on it goes on to the license gate.
C3_EqualVersionSkipsUnlessForced ==
    /\ ( /\ PastVersionGate
         /\ publishContext.ovsxVersion # Undef
         /\ SemverEq(publishContext.ovsxVersion, publishContext.version) ) =>
            IF env.FORCE # "true"
            THEN /\ cur.reached = "versionGate"
                 /\ LastOutcome = "skipped"
                 /\ ~result.defined
                 /\ ~cur.copied
                 /\ ~cur.exitSet
            ELSE cur.reached # "versionGate"
    /\ \A i \in 1..Len(attempts) :
          attempts[i].outcome = "skipped" =>
              OutputPath(extension.id, attempts[i].target) \notin
                  (artifacts \cup Range(CollectFiles(allOptions))
                             \cup Range(extensionFiles))

C3_Witness ==
    /\ pc = "return"
    /\ publishContext.ovsxVersion = "1.10.0" /\ publishContext.version = "1.10.0"
    /\ env.FORCE = "false"
    /\ LastOutcome = "skipped"

\* C4: when the registry's version is strictly greater than the resolved
\* version, the attempt fails at the version gate with the out-of-date error,
\* FORCE on or off: no build result, nothing copied, exit status set to failure.
C4_StaleVersionFails ==
    ( /\ PastVersionGate
      /\ publishContext.ovsxVersion # Undef
      /\ SemverGt(publishContext.ovsxVersion, publishContext.version) ) =>
        /\ cur.reached = "versionGate"
        /\ ~result.defined
        /\ ~cur.copied
        /\ pc \in {"catch", "finally", "return", "buildRejected"}
        /\ pc # "buildRejected" =>
             error = OutOfDateMsg(publishContext.ovsxVersion, publishContext.version)
        /\ Caught => (exitCode = 1 /\ cur.exitSet /\ LastOutcome = "failed")

C4_Witness ==
    /\ pc = "return"
    /\ publishContext.ovsxVersion = "1.10.0" /\ publishContext.version = "1.9.0"
    /\ env.FORCE = "true"
    /\ LastOutcome = "failed" /\ exitCode = 1

\* C5: an attempt at the license gate whose manifests declare no license and
\* whose external check does not confirm one (it resolved false, or there is no
\* source path to run it on) fails with "license is missing": no build result,
\* nothing copied, exit status set to failure.
C5_MissingLicenseFails ==
    cur.license = "missing" =>
        /\ pc \in {"catch", "finally", "return", "buildRejected"}
        /\ pc # "buildRejected" => error = LicenseMissingMsg(extension.id)
        /\ cur.reached = "licenseGate"
        /\ ~result.defined
        /\ ~cur.copied
        /\ Caught => (exitCode = 1 /\ cur.exitSet /\ LastOutcome = "failed")

C5_Witness ==
    /\ pc = "return"
    /\ cur.license = "missing"
    /\ ~publishContext.repo
    /\ LastOutcome = "failed"

\* The words that state the author action in the error of the unpublishable check
AuthorAction(n) ==
    <<"to", "be", "published", "to", "Open", "VSX", "first", "by",
      IF n = 1 THEN "its author because of its license"
               ELSE "their authors because of their licenses">>

\* C6: an attempt at the dependency gate with a declared, non-built-in dependency
\* on the cannot-be-published list fails with an error that names every such
\* dependency and the author action, before any registry lookup, with no build
\* result.
C6_UnpublishableDependencyFails ==
    Len(cur.unpublishable) > 0 =>
        /\ pc \in {"catch", "finally", "return", "buildRejected"}
        /\ cur.lookups = 0
        /\ ~result.defined
        /\ ~cur.copied
        /\ pc # "buildRejected" =>
             /\ \A i \in 1..Len(cur.unpublishable) :
                    Contains(error, <<cur.unpublishable[i]>>)
             /\ Contains(error, AuthorAction(Len(cur.unpublishable)))
        /\ Caught => (exitCode = 1 /\ LastOutcome = "failed")

C6_Witness ==
    /\ pc = "return"
    /\ Len(cur.unpublishable) = 2
    /\ LastOutcome = "failed"

\* C7: in the Publish Gate, an artifact whose manifest publisher or name does not
\* match the requested id case-insensitively (a missing manifest or attribute
\* included) is never published, gets no namespace creation, has a mismatch
\* logged, and does not stop the gate from going on to the remaining artifacts.
C7_MismatchSkippedAndLogged ==
    \A i \in 1..Len(gateLog) :
        gateLog[i].identity = "mismatch" =>
            /\ gateLog[i].createNamespace = 0
            /\ gateLog[i].publish = 0
            /\ gateLog[i].verdict \in {"namespaceMismatch", "nameMismatch"}
            /\ ~(pc = "publishRejected" /\ i = Len(gateLog))

\* C8: an error whose message holds "is already published." is benign wherever
\* it is raised: while building, the attempt is logged as benign and does not
\* set the exit status; while publishing, it does not end the Publish Gate.
C8_AlreadyPublishedIsBenign ==
    /\ (pc \in {"finally", "return"} /\ IsBenign(error)) =>
            (LastOutcome = "benign" /\ ~cur.exitSet)
    /\ pc = "publishRejected" => ~IsBenign(error)

\* C9: without the credential the Publish Gate rejects with the explicit error
\* before it reads a manifest, creates a namespace or publishes, whatever the
\* artifact list, and it never gets past that check.
C9_NoCredentialFailsFirst ==
    ~Truthy(env.OVSX_PAT) =>
        /\ gateLog = <<>>
        /\ registry.createNamespace = 0 /\ registry.publish = 0
        /\ pc \notin {"gateLoop", "createNamespace", "publishArtifact", "done"}
        /\ pc = "publishRejected" => error = PatMissingMsg

C9_Witness ==
    /\ pc = "publishRejected"
    /\ ~Truthy(env.OVSX_PAT)
    /\ error = PatMissingMsg
    /\ Len(extensionFiles) = 2

\* C10: with skip-publish mode on, no namespace-creation call and no publish
\* call is made, and the run never fails for want of the credential.
C10_SkipPublishIsBuildOnly ==
    env.SKIP_PUBLISH = "true" =>
        /\ registry.createNamespace = 0
        /\ registry.publish = 0
        /\ ~(pc = "publishRejected" /\ error = PatMissingMsg)

\* The files that build attempts with outcome o would finalize
OutputsOf(outcomes) ==
    { OutputPath(extension.id, attempts[i].target) :
        i \in { j \in 1..Len(attempts) : attempts[j].outcome \in outcomes } }

\* C11: every path collected for, or handed to, the Publish Gate is the output of
\* an attempt that was built, and an attempt reaches finalization only with a
\* non-empty version resolved from the package it read; an attempt whose XML
\* manifest and binary manifest both yield no version fails with no build result
\* and no copy, and its output path is never handed to the Publish Gate.
C11_FailClosedVersion ==
    /\ (Range(extensionFiles) \cup Range(CollectFiles(allOptions)))
            \subseteq OutputsOf({"built"})
    /\ (result.defined \/ cur.copied \/ pc = "finalize") =>
            (cur.versions = "some" /\ Truthy(publishContext.version))
    /\ cur.versions = "none" =>
        /\ pc \in {"catch", "finally", "return", "buildRejected"}
        /\ cur.reached = "start"
        /\ ~result.defined
        /\ ~cur.copied
        /\ OutputPath(extension.id, publishContext.target) \notin
               (artifacts \cup Range(CollectFiles(allOptions)))
        /\ Caught => (exitCode = 1 /\ LastOutcome = "failed")
    /\ Range(extensionFiles) \cap OutputsOf({"failed", "skipped", "benign"}) = {}

C11_Witness ==
    /\ pc = "return"
    /\ cur.versions = "none"
    /\ error = VersionNotResolvedMsg(extension.id)
    /\ LastOutcome = "failed"

\* C12: the exit status is non-zero from the moment a build attempt has ended in
\* a non-benign error, whether the error was raised by a build step or by the
\* cleanup, and no later attempt resets it; as long as no attempt has ended in a
\* non-benign error the status stays unmarked.
C12_ExitStatusSticky ==
    LET failedAttempt == \E i \in 1..Len(attempts) : attempts[i].outcome = "failed"
        failedCleanup == pc = "buildRejected" /\ ~IsBenign(error)
    IN  /\ failedAttempt => exitCode = 1
        /\ failedCleanup => exitCode = 1
        /\ (~failedAttempt /\ ~failedCleanup) => exitCode = 0

\* C13: past the cannot-be-published check, the registry is consulted once for
\* every dependency that is neither built-in nor exempt before the attempt goes
\* on or fails; when some are absent the attempt fails with one error that lists
\* all of them, and it never fails with a dependency still unchecked.
C13_DependencyCompleteness ==
    /\ pc = "dependencyLookup" =>
            (cur.lookups <= cur.toCheck /\ error = NoError)
    /\ (cur.reached = "lookups" /\ pc # "dependencyLookup") =>
        /\ pc \in {"catch", "finally", "return", "buildRejected"}
        /\ cur.lookups = cur.toCheck
        /\ cur.absent # <<>>
        /\ pc # "buildRejected" =>
               error = NotOnOpenVsxMsg(extension.id, cur.absent)
        /\ ~result.defined
        /\ ~cur.copied
        /\ Caught => (exitCode = 1 /\ LastOutcome = "failed")
    /\ cur.reached = "finalize" =>
            (cur.lookups = cur.toCheck /\ cur.absent = <<>>)

C13_Witness ==
    /\ pc = "return"
    /\ cur.reached = "lookups"
    /\ Len(cur.absent) = 2
    /\ cur.lookups = 2
    /\ LastOutcome = "failed"

\* The gate has finished its work on the i-th artifact it took
Processed(i) == i < Len(gateLog) \/ pc \in {"gateLoop", "done", "publishRejected"}

\* C14: for every artifact that passes identity verification the Publish Gate
\* calls namespace creation once, before it calls publish; when the creation
\* fails the publish call is made all the same and the gate does not reject
\* because of it; over several artifacts the namespace is created at most once
\* and every verified artifact gets its publish call.
C14_NamespaceCreationIdempotent ==
    /\ \A i \in 1..Len(gateLog) :
        /\ gateLog[i].publish <= gateLog[i].createNamespace
        /\ gateLog[i].createNamespace <= 1
        /\ (gateLog[i].verdict = "verified" /\ Processed(i)) =>
                (gateLog[i].createNamespace = 1 /\ gateLog[i].publish = 1)
        /\ gateLog[i].verdict # "verified" => gateLog[i].createNamespace = 0
        /\ gateLog[i].namespace = "created" =>
                /\ registry.namespace = "exists"
                /\ \A j \in 1..Len(gateLog) :
                        j # i => gateLog[j].namespace # "created"
    /\ (pc = "publishRejected" /\ Len(gateLog) > 0
            /\ gateLog[Len(gateLog)].namespace = "rejected") =>
                gateLog[Len(gateLog)].publish = 1

C14_Witness ==
    /\ pc = "done"
    /\ Len(gateLog) = 2
    /\ gateLog[1].namespace = "created" /\ gateLog[1].published
    /\ gateLog[2].namespace = "rejected" /\ gateLog[2].published

C16_PinningFailureSwallowed ==
    cur.pin = "failed" =>
        /\ pythonGlobal = "default"
        /\ pc \in {"custom", "install"} =>
                /\ error = NoError
                /\ ~cur.exitSet
                /\ LastOutcome = "running"
                /\ cur.installs = 0
        /\ extension.custom \/ pc = "install" \/ cur.installs >= 1

C16_Witness ==
    /\ pc = "return"
    /\ cur.pin = "failed"
    /\ extension.pythonVersion # Undef
    /\ LastOutcome = "built"
    /\ exitCode = 0

\* The running attempt has failed inside the install step
FailedAtInstall ==
    /\ pc \in {"catch", "finally", "return", "buildRejected"}
    /\ cur.reached = "start"
    /\ ~result.defined
    /\ ~cur.copied
    /\ pc \in {"catch", "finally", "return"} => error \in ExternalErrors

\* C17: a build attempt runs the install at most twice; the second run happens
\* only after the first failed and the legacy migration was applied; when the
\* migration does not apply the attempt fails after one install with the
\* install's error, and when the retry fails the attempt fails after two.
C17_InstallRetriedOnce ==
    /\ cur.installs <= 2
    /\ cur.installs = 2 <=> cur.install \in {"retryOk", "retryFailed"}
    /\ pc = "installRetry" <=> cur.install = "migrated"
    /\ cur.install = "migrated" => cur.installs = 1
    /\ cur.install = "rethrown" => (cur.installs = 1 /\ FailedAtInstall)
    /\ cur.install = "retryFailed" => FailedAtInstall

C17_Witness ==
    /\ pc = "return"
    /\ cur.install = "retryFailed"
    /\ cur.installs = 2
    /\ LastOutcome = "failed"

\* The targets of the files map that the descriptor allows, in map order
AllowedMapTargets ==
    SelectSeq2(publishContext.files,
               { t \in Range(publishContext.files) :
                    ~extension.hasTarget \/ t \in Range(DeclaredTargets) })

\* C18: with a files map in the publish context, once the build module has
\* stopped it has made one attempt for each map target the descriptor allows,
\* in map order, and no other; each of these attempts takes the mapped file as
\* its artifact and does no source acquisition, pinning or install.
C18_FilesMapIterated ==
    Mode = "files" =>
        /\ BuildOver => AttemptedTargets = AllowedMapTargets
        /\ \A i \in 1..Len(attempts) :
                /\ attempts[i].target \in Range(AllowedMapTargets)
                /\ \A j \in 1..Len(attempts) :
                        attempts[j].target = attempts[i].target => j = i
        /\ procEnv.EXTENSION_ID = Undef
        /\ cur.pin = "unreached" /\ cur.installs = 0
        /\ scope.options.defined =>
                scope.options.extensionFile = DownloadedFile(publishContext.target)

\* C19: at most one build attempt is in progress, and it is the last one
\* started; an attempt starts only when every earlier one has gone through its
\* cleanup and returned; the Publish Gate starts only when all entries of the
\* loop are done and no attempt is in progress; the identity variables of the
\* process environment hold what the running attempt wrote.
C19_SequentialBuilds ==
    /\ \A i \in 1..Len(attempts) :
            attempts[i].outcome = "running" =>
                /\ i = Len(attempts)
                /\ pc \in {"prerequisites", "acquire", "pin", "custom", "install",
                           "installRetry", "package", "readPackage", "versionGate",
                           "licenseGate", "dependencyGate", "dependencyLookup",
                           "finalize", "catch"}
    /\ Len(attempts) <= idx + 1
    /\ pc = "loop" => (Len(attempts) <= idx /\ cur = NoCur)
    /\ pc \in {"publish", "gateLoop", "createNamespace", "publishArtifact", "done",
               "publishRejected"} =>
            (idx = Entries /\ Len(attempts) <= idx /\ cur = NoCur
                /\ extensionFiles = CollectFiles(allOptions))
    /\ cur.pin # "unreached" => procEnv = IdentityEnv(extension.id)

C19_Witness ==
    /\ Len(attempts) = 2
    /\ attempts[1].outcome = "built"
    /\ attempts[2].outcome = "running"
    /\ pc = "install"
    /\ procEnv = IdentityEnv(extension.id)

\* A buildVersion call is running
InBuildVersion ==
    pc \in {"prerequisites", "acquire", "pin", "custom", "install", "installRetry",
            "package", "readPackage", "versionGate", "licenseGate", "dependencyGate",
            "dependencyLookup", "finalize", "catch", "finally", "return"}

\* C20: while a declared target is built, the publish context carries the
\* environment overrides of that target when its configuration is structured,
\* and none when its configuration is the plain flag.
C20_OverridesOnlyForTheirTarget ==
    (Mode = "targets" /\ InBuildVersion) =>
        LET entry == extension.target[idx + 1]
        IN  publishContext.environmentVariables =
                IF entry.data = "true" THEN Undef ELSE entry.name

\* The finalized name of an attempt's artifact, as the claim states it
FinalizedName(target) ==
    IF target = Undef THEN <<artifactDirectory, extension.id, ".vsix">>
    ELSE <<artifactDirectory, extension.id, "@", target, ".vsix">>

\* C21: an attempt has copied a file and holds a build result only after it has
\* resolved a version, passed the version gate, the license gate, the
\* cannot-be-published check and the existence check, each gate entered only
\* after the one before; the artifact directory holds exactly the outputs of
\* the attempts that were built, so a failed or skipped attempt leaves it
\* unchanged; the copy is named <id>.vsix or <id>@<target>.vsix.
C21_OnlyValidatedFinalized ==
    /\ result.defined => cur.copied
    /\ cur.copied =>
        /\ cur.reached = "finalize"
        /\ cur.versions = "some" /\ Truthy(publishContext.version)
        /\ publishContext.ovsxVersion # Undef =>
            /\ ~SemverGt(publishContext.ovsxVersion, publishContext.version)
            /\ SemverEq(publishContext.ovsxVersion, publishContext.version) =>
                    env.FORCE = "true"
        /\ cur.license = "present"
        /\ cur.unpublishable = <<>>
        /\ cur.lookups = cur.toCheck /\ cur.absent = <<>>
        /\ LastOutcome = "built"
        /\ FinalizedName(publishContext.target) \in artifacts
        /\ result.defined =>
                result.extensionFile = FinalizedName(publishContext.target)
    /\ cur.reached \in {"start", "versionGate"} => cur.license = "unread"
    /\ cur.reached = "start" => cur.versions \in {"unread", "none"}
    /\ cur.license # "present" =>
            (cur.unpublishable = <<>> /\ cur.toCheck = 0 /\ cur.lookups = 0)
    /\ cur.unpublishable # <<>> => cur.lookups = 0
    /\ artifacts = { FinalizedName(attempts[i].target) :
                        i \in { j \in 1..Len(attempts) :
                                    attempts[j].outcome = "built" } }

C21_Witness ==
    /\ pc = "return"
    /\ cur.copied /\ result.defined
    /\ publishContext.target # Undef
    /\ publishContext.ovsxVersion = "1.9.0" /\ publishContext.version = "1.10.0"
    /\ cur.lookups = 2
    /\ Len(attempts) = 2 /\ attempts[1].outcome = "failed"
    /\ Cardinality(artifacts) = 1

\* C22: the missing list of the existence check holds exactly the dependencies
\* whose lookup completed and returned no extension; a rejected lookup adds
\* nothing to it, and an attempt in which every lookup was rejected passes the
\* check.
C22_RejectedLookupNotMissing ==
    /\ Len(cur.absent) + cur.rejected <= cur.lookups
    /\ pc = "dependencyLookup" => scope.dependenciesNotOnOpenVsx = cur.absent
    /\ (cur.reached = "lookups" /\ pc \in {"catch", "finally", "return"}) =>
            error = NotOnOpenVsxMsg(extension.id, cur.absent)
    /\ ( /\ cur.lookups > 0
         /\ cur.rejected = cur.lookups
         /\ cur.lookups = cur.toCheck
         /\ ~(pc = "dependencyLookup" /\ scope.depIdx < Len(scope.deps)) ) =>
            /\ cur.absent = <<>>
            /\ pc \in {"dependencyLookup", "finalize"} => error = NoError
            /\ pc # "dependencyLookup" => cur.reached = "finalize"

C22_Witness ==
    /\ pc = "return"
    /\ cur.lookups = 2 /\ cur.rejected = 2
    /\ cur.copied
    /\ LastOutcome = "built"

====
